---- MODULE Spec2Model ----
(***************************************************************************)
(* A model of the rlrl reinforcement-learning library: the replay buffer   *)
(* interface, the DDPG agent's observe/act/update cycle, the Bellman       *)
(* targets of DDPG and SACWithReset, the update of SACWithReset, the       *)
(* SingleAsVectorEnv wrapper and the train_sac interaction loop.           *)
(*                                                                         *)
(* Tensors are modelled elementwise.  A network is modelled by one integer *)
(* parameter; parameters are stored multiplied by Scale so that every soft *)
(* update of a run is exact.                                               *)
(***************************************************************************)
EXTENDS Integers, Sequences, FiniteSets, TLC

\* ---------------------------------------------------------------- bounds
MaxCapacity == 3      \* largest replay buffer capacity tried
MaxBatch == 2         \* largest batch_size tried
MaxStart == 2         \* largest replay_start_size tried
MaxAppend == 4        \* transitions appended in one run
MaxObs == 2           \* zipped input elements of one observe call
MaxUpdate == 2        \* updates performed in one run
MaxLossBatch == 2     \* transitions in the batch handed to a loss function
MaxEnvSteps == 3      \* env.step calls, and reset_wait calls, in one run
MaxActions == 2       \* actions in the batch handed to step_async
MaxTInit == 3         \* largest args.t_init tried
MaxStep == 3          \* largest args.max_step tried

VARIABLES
  \* ---- replay buffer (rl_algos.buffers.ReplayBuffer)
  capacity,           \* ReplayBuffer(capacity)
  replay_buffer,      \* the stored transitions, oldest first
  n_appended,         \* number of append calls so far
  sampled,            \* what the last sample(n) call returned
  sample_n,           \* the n of the last sample(n) call
  sample_raised,      \* whether the last sample(n) call raised
  \* ---- DDPG agent
  batch_size,
  replay_start_size,
  tau,                \* <<numerator, denominator>>
  training,           \* AgentBase.training
  policy,
  policy_target,
  q,
  q_target,
  num_update,
  just_updated,       \* "unset" until update_if_dataset_is_ready first runs
  handler,            \* the method of the agent called last
  trace,              \* the calls made by the last handler, in order
  outcome,            \* how the last handler ended: "returned" or "raised"
  act_kind,           \* how the last act call chose its actions
  n_q_step,           \* q_optimizer.step() calls so far
  n_policy_step,      \* policy_optimizer.step() calls so far
  n_sync,             \* _sync_target_network calls so far
  \* ---- SACWithReset agent (the parameters its Q target reads)
  q1_target,
  q2_target,
  temperature,        \* float(self.temperature_holder())
  reset_cost,         \* float(self.reset_cost())
  \* ---- SACWithReset agent (the other parameters its update changes)
  q1,
  q2,
  reset_rate,         \* reset_rate.reset_rate_param, a float in units of 1/One
  reset_rate_raw,     \* what the last reset_rate_optimizer.step() produced
  reset_rate_target,
  reset_q,
  reset_q_target,
  \* ---- one evaluation of a loss function
  l_batch,            \* the TrainingBatch, one record per transition
  l_fn,               \* the loss function evaluated last
  l_out,              \* what it computed, one record per transition
  \* ---- SingleAsVectorEnv and the gym.Env it wraps
  _action,            \* self._action: [set |-> has step_async run, val |-> the batch]
  env_steps,          \* self.env.step calls so far
  env_resets,         \* self.env.reset calls so far
  env_last_action,    \* the action of the last self.env.step call
  env_step_ret,       \* what the last self.env.step call returned
  env_reset_ret,      \* what the last self.env.reset call returned
  v_handler,          \* the method of the wrapper called last
  v_outcome,          \* how it ended: "returned" or "raised"
  v_ret,              \* what it returned
  \* ---- train_sac
  t_init,             \* args.t_init
  max_step,           \* args.max_step
  save_agent,         \* args.save_agent
  total_step,         \* interactions.total_step
  actor,              \* interactions.actor
  t_pc,               \* "loop", "returned" or "raised"
  t_exc,              \* where the exception that ended train_sac was raised
  step_log,           \* one record per iteration of the loop
  n_saved             \* sac_agent.save calls so far

bufVars == <<capacity, replay_buffer, n_appended, sampled, sample_n, sample_raised>>
agentVars == <<batch_size, replay_start_size, tau, training, policy, policy_target,
               q, q_target, num_update, just_updated, handler, trace, outcome, act_kind,
               n_q_step, n_policy_step, n_sync>>
sacVars == <<q1_target, q2_target, temperature, reset_cost, q1, q2, reset_rate,
             reset_rate_raw, reset_rate_target, reset_q, reset_q_target>>
lossVars == <<l_batch, l_fn, l_out>>
envVars == <<_action, env_steps, env_resets, env_last_action, env_step_ret,
             env_reset_ret, v_handler, v_outcome, v_ret>>
trainVars == <<t_init, max_step, save_agent, total_step, actor, t_pc, t_exc, step_log,
               n_saved>>
vars == <<bufVars, agentVars, sacVars, lossVars, envVars, trainVars>>

\* ------------------------------------------------------- replay buffer
Transition(i) == [id |-> i]

Capacities == 1..MaxCapacity

\* ReplayBuffer.append: a bounded queue, the oldest transition leaves when full.
BufferAppend_NoEvict(buf, x, cap) == Append(buf, x)

BufferAppend(buf, x, cap) ==
  IF Len(buf) >= cap THEN Append(Tail(buf), x) ELSE Append(buf, x)

\* The sequences of n positions of buf, with and without repetition.
IndexSeqs(buf, n) == [1..n -> 1..Len(buf)]

UniqueIndexSeqs(buf, n) ==
  {s \in IndexSeqs(buf, n) : \A i, j \in 1..n : i # j => s[i] # s[j]}

\* ReplayBuffer.sample(n): n unique transitions of the buffer, in any order.
BufferSample_WithReplacement(buf, n) ==
  {[i \in 1..n |-> buf[s[i]]] : s \in IndexSeqs(buf, n)}

BufferSample(buf, n) ==
  {[i \in 1..n |-> buf[s[i]]] : s \in UniqueIndexSeqs(buf, n)}

\* n unique transitions exist only when the buffer holds n of them.
CanSample(buf, n) == n <= Len(buf)

InitBuffer ==
  /\ capacity \in Capacities
  /\ replay_buffer = <<>>
  /\ n_appended = 0
  /\ sampled = <<>>
  /\ sample_n = 0
  /\ sample_raised = FALSE

\* The buffer as it is when it is not exercised.
IdleBuffer ==
  /\ capacity = 1
  /\ replay_buffer = <<>>
  /\ n_appended = 0
  /\ sampled = <<>>
  /\ sample_n = 0
  /\ sample_raised = FALSE

\* replay_buffer.append(...), called on the buffer alone.
AppendCall ==
  /\ n_appended < MaxAppend
  /\ replay_buffer' = BufferAppend(replay_buffer, Transition(n_appended + 1), capacity)
  /\ n_appended' = n_appended + 1
  /\ UNCHANGED <<capacity, sampled, sample_n, sample_raised>>

\* replay_buffer.sample(n), called on the buffer alone.
SampleCall ==
  \E n \in 1..MaxCapacity :
    /\ sample_n' = n
    /\ IF CanSample(replay_buffer, n)
       THEN sampled' \in BufferSample(replay_buffer, n) /\ sample_raised' = FALSE
       ELSE sampled' = <<>> /\ sample_raised' = TRUE
    /\ UNCHANGED <<capacity, replay_buffer, n_appended>>

\* ---------------------------------------------------------- DDPG agent
MaxDen == 4
Scale == MaxDen ^ (MaxUpdate + 1)
Taus == {<<1, 2>>, <<1, MaxDen>>}
ParamVals == {0, Scale}

\* synchronize_parameters(src, dst, method="soft", tau):
\* dst := tau * src + (1 - tau) * dst.
SoftUpdate(src, dst, t) == (t[1] * src + (t[2] - t[1]) * dst) \div t[2]

\* The guard of update_if_dataset_is_ready.
DatasetIsReady_Geq(len, start) == len >= start

DatasetIsReady(len, start) == len > start

\* _update_critic: q_optimizer.step() moves the parameters of q alone.
UpdateCritic(n, newq) ==
  [n EXCEPT !.q = newq, !.n_q_step = @ + 1, !.log = Append(@, "_update_critic")]

\* _update_actor: policy_optimizer.step() moves the parameters of policy alone.
UpdateActor(n, newp) ==
  [n EXCEPT !.policy = newp, !.n_policy_step = @ + 1,
            !.log = Append(@, "_update_actor")]

\* _sync_target_network: both targets are soft-updated from their sources.
SyncTargetNetwork(n, t) ==
  [n EXCEPT !.policy_target = SoftUpdate(n.policy, n.policy_target, t),
            !.q_target = SoftUpdate(n.q, n.q_target, t),
            !.n_sync = @ + 1,
            !.log = Append(@, "_sync_target_network")]

\* The body of the update: critic step, actor step, then the target sync.
PerformUpdate_SyncFirst(n, newq, newp, t) ==
  UpdateActor(UpdateCritic(SyncTargetNetwork(n, t), newq), newp)

PerformUpdate(n, newq, newp, t) ==
  SyncTargetNetwork(UpdateActor(UpdateCritic(n, newq), newp), t)

\* The networks of the agent as update_if_dataset_is_ready finds them, the
\* batch just sampled.
Nets == [q |-> q, q_target |-> q_target, policy |-> policy,
         policy_target |-> policy_target, n_q_step |-> n_q_step,
         n_policy_step |-> n_policy_step, n_sync |-> n_sync, log |-> <<"sample">>]

InitAgent ==
  /\ batch_size \in 1..MaxBatch
  /\ replay_start_size \in 0..MaxStart
  /\ tau \in Taus
  /\ training \in BOOLEAN
  /\ policy \in ParamVals
  /\ policy_target = policy
  /\ q \in ParamVals
  /\ q_target = q
  /\ num_update = 0
  /\ just_updated = "unset"
  /\ handler = "__init__"
  /\ trace = <<>>
  /\ outcome = "returned"
  /\ act_kind = "none"
  /\ n_q_step = 0
  /\ n_policy_step = 0
  /\ n_sync = 0

\* update_if_dataset_is_ready on the buffer contents buf (self.training holds).
\* The sampled batch is a local of the handler: it feeds the losses only.
UpdateIfDatasetIsReady(buf) ==
  IF DatasetIsReady(Len(buf), replay_start_size)
  THEN
    IF CanSample(buf, batch_size)
    THEN
      /\ num_update < MaxUpdate
      /\ \E newq \in ParamVals, newp \in ParamVals :
           LET n == PerformUpdate(Nets, newq, newp, tau) IN
             /\ q' = n.q
             /\ policy' = n.policy
             /\ q_target' = n.q_target
             /\ policy_target' = n.policy_target
             /\ trace' = n.log
             /\ n_q_step' = n.n_q_step
             /\ n_policy_step' = n.n_policy_step
             /\ n_sync' = n.n_sync
      /\ just_updated' = "True"
      /\ num_update' = num_update + 1
      /\ outcome' = "returned"
    ELSE
      \* sample(batch_size) cannot deliver and raises; the handler is left there.
      /\ just_updated' = "True"
      /\ trace' = <<"sample">>
      /\ outcome' = "raised"
      /\ UNCHANGED <<q, policy, q_target, policy_target, num_update,
                     n_q_step, n_policy_step, n_sync>>
  ELSE
    /\ just_updated' = "False"
    /\ trace' = <<>>
    /\ outcome' = "returned"
    /\ UNCHANGED <<q, policy, q_target, policy_target, num_update,
                   n_q_step, n_policy_step, n_sync>>

RECURSIVE AppendAll(_, _, _, _)
\* The loop of observe: k transitions appended one after the other.
AppendAll_OnlyFirst(buf, first, k, cap) ==
  IF k = 0 THEN buf ELSE BufferAppend(buf, Transition(first), cap)

AppendAll(buf, first, k, cap) ==
  IF k = 0 THEN buf
  ELSE AppendAll(BufferAppend(buf, Transition(first), cap), first + 1, k - 1, cap)

\* observe(states, next_states, actions, rewards, terminals, resets) with k
\* zipped elements.
Observe ==
  \E k \in 0..MaxObs :
    /\ n_appended + k <= MaxAppend
    /\ IF training
       THEN
         /\ replay_buffer' = AppendAll(replay_buffer, n_appended + 1, k, capacity)
         /\ n_appended' = n_appended + k
         /\ UpdateIfDatasetIsReady(replay_buffer')
       ELSE
         /\ trace' = <<>>
         /\ outcome' = "returned"
         /\ UNCHANGED <<replay_buffer, n_appended, q, policy, q_target,
                        policy_target, num_update, just_updated, n_q_step,
                        n_policy_step, n_sync>>
    /\ handler' = "observe"
    /\ act_kind' = "none"
    /\ UNCHANGED <<capacity, sampled, sample_n, sample_raised, batch_size,
                   replay_start_size, tau, training>>

\* update_if_dataset_is_ready called on its own; assert self.training.
UpdateCall ==
  /\ IF training
     THEN UpdateIfDatasetIsReady(replay_buffer)
     ELSE
       /\ trace' = <<>>
       /\ outcome' = "raised"
       /\ UNCHANGED <<q, policy, q_target, policy_target, num_update,
                      just_updated, n_q_step, n_policy_step, n_sync>>
  /\ handler' = "update_if_dataset_is_ready"
  /\ act_kind' = "none"
  /\ UNCHANGED <<bufVars, batch_size, replay_start_size, tau, training>>

\* act(states): how the actions are chosen.
ActKind_Leq(train, len, start) ==
  IF train
  THEN IF len <= start THEN "random" ELSE "policy_explorer"
  ELSE "deterministic"

ActKind(train, len, start) ==
  IF train
  THEN IF len < start THEN "random" ELSE "policy_explorer"
  ELSE "deterministic"

Act ==
  /\ act_kind' = ActKind(training, Len(replay_buffer), replay_start_size)
  /\ handler' = "act"
  /\ trace' = <<>>
  /\ outcome' = "returned"
  /\ UNCHANGED <<bufVars, batch_size, replay_start_size, tau, training, policy,
                 policy_target, q, q_target, num_update, just_updated, n_q_step,
                 n_policy_step, n_sync>>

\* AgentBase.train() / AgentBase.eval().
SetTraining ==
  /\ training' = ~training
  /\ handler' = IF training THEN "eval" ELSE "train"
  /\ trace' = <<>>
  /\ outcome' = "returned"
  /\ act_kind' = "none"
  /\ UNCHANGED <<bufVars, batch_size, replay_start_size, tau, policy, policy_target, q,
                 q_target, num_update, just_updated, n_q_step, n_policy_step, n_sync>>

\* A freshly built agent: everything but its target networks.
InitAgentFixed ==
  /\ batch_size = 1
  /\ replay_start_size = 0
  /\ tau = <<1, 2>>
  /\ training = TRUE
  /\ policy = 0
  /\ q = 0
  /\ num_update = 0
  /\ just_updated = "unset"
  /\ handler = "__init__"
  /\ trace = <<>>
  /\ outcome = "returned"
  /\ act_kind = "none"
  /\ n_q_step = 0
  /\ n_policy_step = 0
  /\ n_sync = 0

\* The agent as it is when only its replay buffer is exercised.
IdleAgent == InitAgentFixed /\ policy_target = 0 /\ q_target = 0

\* ------------------------------------------------------ Bellman targets
\* A float32 value: a finite number, NaN, an infinity, or the largest and
\* smallest finite float32 (which absorb the finite numbers added to them).
Fin(v) == [k |-> "fin", v |-> v]
NaN == [k |-> "nan", v |-> 0]
PosInf == [k |-> "pinf", v |-> 0]
NegInf == [k |-> "ninf", v |-> 0]
FloatMax == [k |-> "fmax", v |-> 0]
FloatMin == [k |-> "fmin", v |-> 0]

\* gamma = 0.99.  Targets are kept in units of 1/GammaDen.
GammaNum == 99
GammaDen == 100

\* x * c for a float x and an integer c > 0.
FScale(x, c) == IF x.k = "fin" THEN Fin(x.v * c) ELSE x

\* x + n for a float x and a finite number n.
FAdd(x, n) == IF x.k = "fin" THEN Fin(x.v + n) ELSE x

\* torch.isnan(x).float()
IsNanFloat(x) == IF x.k = "nan" THEN 1 ELSE 0

\* torch.nan_to_num(x, nan): NaN becomes nan; posinf and neginf are not given,
\* so +inf becomes the largest and -inf the smallest finite float32.
NanToNum_DefaultNan(x, nan) ==
  CASE x.k = "nan" -> Fin(0)
    [] x.k = "pinf" -> FloatMax
    [] x.k = "ninf" -> FloatMin
    [] OTHER -> x

NanToNum(x, nan) ==
  CASE x.k = "nan" -> nan
    [] x.k = "pinf" -> FloatMax
    [] x.k = "ninf" -> FloatMin
    [] OTHER -> x

\* batch.terminal.logical_not() as a factor.
LogicalNot_Identity(terminal) == IF terminal THEN 1 ELSE 0

LogicalNot(terminal) == IF terminal THEN 0 ELSE 1

\* A Q network and a deterministic policy network with parameter theta: any
\* fixed function that tells its parameter and its inputs apart.
QNet(theta, state, action) == 4 * theta + 2 * state + action

PolicyNet(theta, state) == theta + state

Min(a, b) == IF a <= b THEN a ELSE b

\* DDPG.compute_q_loss, the q_target of one transition t.
DDPGQTarget(t, qt, pt) ==
  LET next_actions == PolicyNet(pt, t.next_state)
      next_q == QNet(qt, t.next_state, next_actions)
  IN [reward |-> t.reward,
      next_value |-> next_q,
      q_target |-> FAdd(FScale(t.reward, GammaDen),
                        GammaNum * LogicalNot(t.terminal) * next_q)]

\* SACWithReset.compute_q_loss, the q_target of one transition t; d is the
\* action sampled from policy(next_state) with its log-probability.
SACQTarget(t, d, q1t, q2t, temp, cost) ==
  LET next_q == Min(QNet(q1t, t.next_state, d.next_action),
                    QNet(q2t, t.next_state, d.next_action))
      entropy_term == temp * d.next_log_prob
      reward == NanToNum(t.reward, Fin(-cost))
  IN [reward |-> reward,
      next_value |-> next_q - entropy_term,
      q_target |-> FAdd(FScale(reward, GammaDen),
                        LogicalNot(t.terminal) * GammaNum * (next_q - entropy_term))]

\* SACWithReset.compute_reset_losses, the reward of one transition t.
ResetReward(t) == [reward |-> IsNanFloat(t.reward)]

Rewards == {Fin(0), Fin(1), NaN, PosInf, NegInf}

BatchElems == [reward : Rewards, terminal : BOOLEAN, next_state : {1}]

Batches == UNION {[1..n -> BatchElems] : n \in 1..MaxLossBatch}

\* What policy(next_state).sample() and log_prob can give.
Draws == {[next_action |-> 0, next_log_prob |-> -1],
          [next_action |-> 1, next_log_prob |-> 1]}

\* The parameters of a freshly built SACWithReset that no loss function reads:
\* reset_rate_param starts at 0.0 and every target is a deepcopy of its source.
InitReset ==
  /\ q1 = 0
  /\ q2 = 0
  /\ reset_rate = Fin(0)
  /\ reset_rate_raw = Fin(0)
  /\ reset_rate_target = Fin(0)
  /\ reset_q = 0
  /\ reset_q_target = 0

IdleSAC ==
  /\ q1_target = 0
  /\ q2_target = 0
  /\ temperature = 1
  /\ reset_cost = 0
  /\ InitReset

IdleLoss ==
  /\ l_batch = <<>>
  /\ l_fn = "none"
  /\ l_out = <<>>

DDPGComputeQLoss ==
  /\ l_fn' = "DDPG.compute_q_loss"
  /\ l_out' = [i \in 1..Len(l_batch) |-> DDPGQTarget(l_batch[i], q_target, policy_target)]
  /\ UNCHANGED <<bufVars, agentVars, sacVars, l_batch>>

SACComputeQLoss ==
  /\ l_fn' = "SACWithReset.compute_q_loss"
  /\ \E d \in [1..Len(l_batch) -> Draws] :
       l_out' = [i \in 1..Len(l_batch) |->
                   SACQTarget(l_batch[i], d[i], q1_target, q2_target, temperature,
                              reset_cost)]
  /\ UNCHANGED <<bufVars, agentVars, sacVars, l_batch>>

SACComputeResetLosses ==
  /\ l_fn' = "SACWithReset.compute_reset_losses"
  /\ l_out' = [i \in 1..Len(l_batch) |-> ResetReward(l_batch[i])]
  /\ UNCHANGED <<bufVars, agentVars, sacVars, l_batch>>

\* ------------------------------------------------- SACWithReset agent
\* 1.0 as a reset rate.
One == Scale

\* ResetRate.clip(): torch.clip(reset_rate_param, min=0.0, max=1.0).  torch.clip
\* leaves NaN as it is.
Clip_NoUpper(x) ==
  CASE x.k = "nan" -> x
    [] x.k = "ninf" -> Fin(0)
    [] x.k = "fmin" -> Fin(0)
    [] x.k = "fin" /\ x.v < 0 -> Fin(0)
    [] OTHER -> x

Clip(x) ==
  CASE x.k = "nan" -> x
    [] x.k = "pinf" -> Fin(One)
    [] x.k = "fmax" -> Fin(One)
    [] x.k = "ninf" -> Fin(0)
    [] x.k = "fmin" -> Fin(0)
    [] x.k = "fin" /\ x.v < 0 -> Fin(0)
    [] x.k = "fin" /\ x.v > One -> Fin(One)
    [] OTHER -> x

\* The soft update of a float parameter: NaN spreads to the target.
FSoftUpdate(src, dst, t) ==
  IF src.k = "fin" /\ dst.k = "fin" THEN Fin(SoftUpdate(src.v, dst.v, t))
  ELSE IF src.k = "nan" \/ dst.k = "nan" THEN NaN
  ELSE IF src.k # "fin" THEN src
  ELSE dst

\* What the optimizer steps of one update may leave in the parameters.
QSteps == {<<0, Scale>>, <<Scale, 0>>}
PolicySteps == {<<0, 1>>, <<Scale, 2>>}
ResetSteps == {<<0, 1>>, <<Scale, 2>>}
RateSteps == {Fin(0 - One), Fin(One \div 2), Fin(2 * One), NaN}

\* The parameters an update works on, and the log of what it has done so far.
SACNets == [q1 |-> q1, q2 |-> q2, q1_target |-> q1_target, q2_target |-> q2_target,
            policy |-> policy, temperature |-> temperature, reset_cost |-> reset_cost,
            reset_rate |-> reset_rate, reset_rate_raw |-> reset_rate_raw,
            reset_rate_target |-> reset_rate_target, reset_q |-> reset_q,
            reset_q_target |-> reset_q_target, n_sync |-> n_sync,
            log |-> <<"sample">>]

\* SAC._update_q: the optimizers of q1 and q2 are stepped.
UpdateQ(n, newq) ==
  [n EXCEPT !.q1 = newq[1], !.q2 = newq[2], !.log = Append(@, "_update_q")]

\* _update_reset_cost: the three optimizers are stepped, then reset_rate is
\* clipped.
UpdateResetCost(n, newr, newrate) ==
  LET stepped == [n EXCEPT !.reset_q = newr[1],
                           !.reset_rate = newrate,
                           !.reset_rate_raw = newrate,
                           !.reset_cost = newr[2],
                           !.log = @ \o <<"_update_reset_cost",
                                          "reset_q_optimizer.step",
                                          "reset_rate_optimizer.step",
                                          "reset_cost_optimizer.step">>]
  IN [stepped EXCEPT !.reset_rate = Clip(@), !.log = Append(@, "reset_rate.clip")]

\* SAC._update_policy_and_temperature.
UpdatePolicyAndTemperature(n, newpt) ==
  [n EXCEPT !.policy = newpt[1], !.temperature = newpt[2],
            !.log = Append(@, "_update_policy_and_temperature")]

\* SAC._sync_target_network: the targets of q1 and q2 follow them.
SuperSyncTargetNetwork(n, t) ==
  [n EXCEPT !.q1_target = SoftUpdate(n.q1, @, t),
            !.q2_target = SoftUpdate(n.q2, @, t),
            !.log = Append(@, "super()._sync_target_network")]

\* SACWithReset._sync_target_network: reset_rate_target, reset_q_target, then
\* the targets of SAC.
SACSyncTargetNetwork(n, t) ==
  LET a == [n EXCEPT !.reset_rate_target = FSoftUpdate(n.reset_rate, @, t),
                     !.log = @ \o <<"_sync_target_network",
                                    "synchronize reset_rate_target">>]
      b == [a EXCEPT !.reset_q_target = SoftUpdate(a.reset_q, @, t),
                     !.n_sync = @ + 1,
                     !.log = Append(@, "synchronize reset_q_target")]
  IN SuperSyncTargetNetwork(b, t)

\* The body of update_if_dataset_is_ready once the batch is sampled.
SACPerformUpdate_SyncBeforeResetCost(n, newq, newr, newrate, newpt, t) ==
  UpdatePolicyAndTemperature(
    UpdateResetCost(SACSyncTargetNetwork(UpdateQ(n, newq), t), newr, newrate), newpt)

SACPerformUpdate(n, newq, newr, newrate, newpt, t) ==
  SACSyncTargetNetwork(
    UpdatePolicyAndTemperature(UpdateResetCost(UpdateQ(n, newq), newr, newrate), newpt),
    t)

\* SACWithReset.update_if_dataset_is_ready on the buffer contents buf
\* (self.training holds).
SACUpdateIfDatasetIsReady(buf) ==
  IF DatasetIsReady(Len(buf), replay_start_size)
  THEN
    IF CanSample(buf, batch_size)
    THEN
      /\ n_sync < MaxUpdate
      /\ \E newq \in QSteps, newr \in ResetSteps, newrate \in RateSteps,
            newpt \in PolicySteps :
           LET n == SACPerformUpdate(SACNets, newq, newr, newrate, newpt, tau) IN
             /\ q1' = n.q1
             /\ q2' = n.q2
             /\ q1_target' = n.q1_target
             /\ q2_target' = n.q2_target
             /\ policy' = n.policy
             /\ temperature' = n.temperature
             /\ reset_cost' = n.reset_cost
             /\ reset_rate' = n.reset_rate
             /\ reset_rate_raw' = n.reset_rate_raw
             /\ reset_rate_target' = n.reset_rate_target
             /\ reset_q' = n.reset_q
             /\ reset_q_target' = n.reset_q_target
             /\ n_sync' = n.n_sync
             /\ trace' = n.log
      /\ just_updated' = "True"
      /\ outcome' = "returned"
    ELSE
      \* sample(batch_size) cannot deliver and raises; the handler is left there.
      /\ just_updated' = "True"
      /\ trace' = <<"sample">>
      /\ outcome' = "raised"
      /\ UNCHANGED <<sacVars, policy, n_sync>>
  ELSE
    /\ just_updated' = "False"
    /\ trace' = <<>>
    /\ outcome' = "returned"
    /\ UNCHANGED <<sacVars, policy, n_sync>>

\* SACWithReset.update_if_dataset_is_ready; assert self.training.
SACUpdateCall ==
  /\ IF training
     THEN SACUpdateIfDatasetIsReady(replay_buffer)
     ELSE
       /\ trace' = <<>>
       /\ outcome' = "raised"
       /\ UNCHANGED <<sacVars, policy, n_sync, just_updated>>
  /\ handler' = "update_if_dataset_is_ready"
  /\ UNCHANGED <<bufVars, batch_size, replay_start_size, tau, training, policy_target,
                 q, q_target, num_update, act_kind, n_q_step, n_policy_step>>

\* agent.replay_buffer.append(...): one transition reaches the agent's buffer.
SACAppend ==
  /\ AppendCall
  /\ handler' = "replay_buffer.append"
  /\ trace' = <<>>
  /\ outcome' = "returned"
  /\ UNCHANGED <<sacVars, batch_size, replay_start_size, tau, training, policy,
                 policy_target, q, q_target, num_update, just_updated, act_kind,
                 n_q_step, n_policy_step, n_sync>>

\* A freshly built SACWithReset agent and its empty replay buffer.
InitSAC ==
  /\ capacity = MaxCapacity
  /\ replay_buffer = <<>>
  /\ n_appended = 0
  /\ sampled = <<>>
  /\ sample_n = 0
  /\ sample_raised = FALSE
  /\ batch_size \in {1, 2}
  /\ replay_start_size \in {0, 1}
  /\ tau = <<1, MaxDen>>
  /\ training = TRUE
  /\ policy = 0
  /\ policy_target = 0
  /\ q = 0
  /\ q_target = 0
  /\ num_update = 0
  /\ just_updated = "unset"
  /\ handler = "__init__"
  /\ trace = <<>>
  /\ outcome = "returned"
  /\ act_kind = "none"
  /\ n_q_step = 0
  /\ n_policy_step = 0
  /\ n_sync = 0
  /\ IdleSAC

\* ---------------------------------------------------- SingleAsVectorEnv
Observations == {0, 1}
EnvRewards == {0, 1}
EnvActions == {0, 1}

\* The info dict of the wrapped env's step, with a key of the env's own.
EnvInfos == {[truncated |-> FALSE], [truncated |-> TRUE]}

\* d with d[key] = value, as the assignment d[key] = value leaves a dict.
DictSet(d, key, value) ==
  [k \in DOMAIN d \cup {key} |-> IF k = key THEN value ELSE d[k]]

ActionBatches == UNION {[1..n -> EnvActions] : n \in 1..MaxActions}

NoReturn == [observation |-> <<>>, reward |-> <<>>, done |-> <<>>, info |-> <<>>]

InitEnv ==
  /\ _action = [set |-> FALSE, val |-> <<>>]
  /\ env_steps = 0
  /\ env_resets = 0
  /\ env_last_action = 0
  /\ env_step_ret = [observation |-> 0, reward |-> 0, done |-> FALSE,
                     info |-> [truncated |-> FALSE]]
  /\ env_reset_ret = 0
  /\ v_handler = "__init__"
  /\ v_outcome = "returned"
  /\ v_ret = NoReturn

\* step_async(actions)
StepAsync ==
  \E actions \in ActionBatches :
    /\ _action' = [set |-> TRUE, val |-> actions]
    /\ v_handler' = "step_async"
    /\ v_outcome' = "returned"
    /\ v_ret' = NoReturn
    /\ UNCHANGED <<env_steps, env_resets, env_last_action, env_step_ret, env_reset_ret>>

\* Whether step_wait resets the wrapped env after a step that reported done.
ResetsAfter_Never(done) == FALSE

ResetsAfter(done) == done

\* The action step_wait hands to the wrapped env.
StepAction_Last(batch) == batch[Len(batch)]

StepAction(batch) == batch[1]

\* step_wait()
StepWait ==
  /\ v_handler' = "step_wait"
  /\ IF ~_action.set
     THEN
       \* self._action does not exist yet: AttributeError.
       /\ v_outcome' = "raised"
       /\ v_ret' = NoReturn
       /\ UNCHANGED <<env_steps, env_resets, env_last_action, env_step_ret, env_reset_ret>>
     ELSE
       /\ env_steps < MaxEnvSteps
       /\ \E o \in Observations, r \in EnvRewards, d \in BOOLEAN, i \in EnvInfos,
             ro \in Observations :
            /\ env_steps' = env_steps + 1
            /\ env_last_action' = StepAction(_action.val)
            /\ env_step_ret' = [observation |-> o, reward |-> r, done |-> d, info |-> i]
            /\ IF ResetsAfter(d)
               THEN
                 /\ env_resets' = env_resets + 1
                 /\ env_reset_ret' = ro
                 /\ v_ret' = [observation |-> <<ro>>, reward |-> <<r>>, done |-> <<d>>,
                              info |-> <<DictSet(i, "terminal_observation", o)>>]
               ELSE
                 /\ UNCHANGED <<env_resets, env_reset_ret>>
                 /\ v_ret' = [observation |-> <<o>>, reward |-> <<r>>, done |-> <<d>>,
                              info |-> <<i>>]
       /\ v_outcome' = "returned"
  /\ UNCHANGED _action

\* reset_wait(seed)
ResetWait ==
  /\ env_resets < MaxEnvSteps
  /\ \E ro \in Observations :
       /\ env_reset_ret' = ro
       /\ v_ret' = [NoReturn EXCEPT !.observation = <<ro>>]
  /\ env_resets' = env_resets + 1
  /\ v_handler' = "reset_wait"
  /\ v_outcome' = "returned"
  /\ UNCHANGED <<_action, env_steps, env_last_action, env_step_ret>>

\* ------------------------------------------------------------ train_sac
\* GymInteractions: one more step is taken while total_step < max_step.
HasNextStep(total, max) == total < max

\* Line 58: finish sampling and change actor.
SwitchActor(a, total, tinit) == IF total = tinit THEN "agent_actor" ELSE a

\* Line 61: whether sac_agent.update() is called.
ShouldUpdate_Always(a) == TRUE

ShouldUpdate(a) == a = "agent_actor"

\* The finally block: the sac_agent.save calls made on the way out, raised
\* telling whether an exception is propagating.
SaveOnExit_OnlyOnSuccess(flag, raised) == IF flag /\ ~raised THEN 1 ELSE 0

SaveOnExit(flag, raised) == IF flag THEN 1 ELSE 0

\* The places of the loop where an exception can be raised.
RaisePoints == {"step", "observe", "update", "log"}

InitTrain ==
  /\ t_init \in 0..MaxTInit
  /\ max_step \in 1..MaxStep
  /\ save_agent \in BOOLEAN
  /\ total_step = 0
  /\ actor = "random_actor"
  /\ t_pc = "loop"
  /\ t_exc = "none"
  /\ step_log = <<>>
  /\ n_saved = 0

\* One iteration of the loop that runs to its end.
TrainStep ==
  /\ t_pc = "loop"
  /\ HasNextStep(total_step, max_step)
  /\ \E done \in BOOLEAN :
       LET total == total_step + 1
           after == SwitchActor(actor, total, t_init)
       IN /\ total_step' = total
          /\ actor' = after
          /\ step_log' = Append(step_log,
                                [step |-> total, acting |-> actor, after |-> after,
                                 observed |-> TRUE, updated |-> ShouldUpdate(after),
                                 logged |-> done, raised |-> "none"])
  /\ UNCHANGED <<t_init, max_step, save_agent, t_pc, t_exc, n_saved>>

\* One iteration in which an exception is raised at the place exc: it is not
\* caught, the finally block runs, and train_sac is left.
TrainStepRaises ==
  /\ t_pc = "loop"
  /\ HasNextStep(total_step, max_step)
  /\ \E done \in BOOLEAN, exc \in RaisePoints :
       LET total == IF exc = "step" THEN total_step ELSE total_step + 1
           after == IF exc \in {"step", "observe"} THEN actor
                    ELSE SwitchActor(actor, total, t_init)
           update == exc \notin {"step", "observe"} /\ ShouldUpdate(after)
       IN /\ exc = "update" => update
          /\ exc = "log" => done
          /\ total_step' = total
          /\ actor' = after
          /\ step_log' = Append(step_log,
                                [step |-> total, acting |-> actor, after |-> after,
                                 observed |-> exc # "step", updated |-> update,
                                 logged |-> exc = "log", raised |-> exc])
          /\ t_exc' = exc
  /\ t_pc' = "raised"
  /\ n_saved' = n_saved + SaveOnExit(save_agent, TRUE)
  /\ UNCHANGED <<t_init, max_step, save_agent>>

\* The interactions are exhausted: the loop ends, the finally block runs.
TrainEnd ==
  /\ t_pc = "loop"
  /\ ~HasNextStep(total_step, max_step)
  /\ t_pc' = "returned"
  /\ n_saved' = n_saved + SaveOnExit(save_agent, FALSE)
  /\ UNCHANGED <<t_init, max_step, save_agent, total_step, actor, t_exc, step_log>>

IdleEnv == InitEnv

IdleTrain ==
  /\ t_init = 0
  /\ max_step = 1
  /\ save_agent = FALSE
  /\ total_step = 0
  /\ actor = "random_actor"
  /\ t_pc = "loop"
  /\ t_exc = "none"
  /\ step_log = <<>>
  /\ n_saved = 0

\* --------------------------------------------------------- specifications
Init == InitBuffer /\ InitAgent /\ IdleSAC /\ IdleLoss /\ IdleEnv /\ IdleTrain

InitBufferOnly ==
  InitBuffer /\ IdleAgent /\ IdleSAC /\ IdleLoss /\ IdleEnv /\ IdleTrain

\* The replay buffer used on its own.
NextBuffer ==
  \/ AppendCall /\ UNCHANGED <<agentVars, sacVars, lossVars, envVars, trainVars>>
  \/ SampleCall /\ UNCHANGED <<agentVars, sacVars, lossVars, envVars, trainVars>>

SpecBuffer == InitBufferOnly /\ [][NextBuffer]_vars

\* The DDPG agent driven through its public methods.
Next ==
  \/ Observe /\ UNCHANGED <<sacVars, lossVars, envVars, trainVars>>
  \/ UpdateCall /\ UNCHANGED <<sacVars, lossVars, envVars, trainVars>>
  \/ Act /\ UNCHANGED <<sacVars, lossVars, envVars, trainVars>>
  \/ SetTraining /\ UNCHANGED <<sacVars, lossVars, envVars, trainVars>>

Spec == Init /\ [][Next]_vars

\* One loss function evaluated on a batch: the agents as a loss function may
\* find them, and the batch it is given.
InitLoss ==
  /\ IdleBuffer
  /\ InitAgentFixed
  /\ q_target \in {1, 2}
  /\ policy_target \in {0, 1}
  /\ q1_target \in {1, 3}
  /\ q2_target = 2
  /\ temperature \in {1, 2}
  /\ reset_cost = 2
  /\ InitReset
  /\ l_batch \in Batches
  /\ l_fn = "none"
  /\ l_out = <<>>
  /\ IdleEnv
  /\ IdleTrain

NextLoss ==
  \/ DDPGComputeQLoss /\ UNCHANGED <<envVars, trainVars>>
  \/ SACComputeQLoss /\ UNCHANGED <<envVars, trainVars>>
  \/ SACComputeResetLosses /\ UNCHANGED <<envVars, trainVars>>

SpecLoss == InitLoss /\ [][NextLoss]_vars

\* SingleAsVectorEnv driven through its methods.
InitEnvOnly == IdleBuffer /\ IdleAgent /\ IdleSAC /\ IdleLoss /\ InitEnv /\ IdleTrain

NextEnv ==
  \/ StepAsync /\ UNCHANGED <<bufVars, agentVars, sacVars, lossVars, trainVars>>
  \/ StepWait /\ UNCHANGED <<bufVars, agentVars, sacVars, lossVars, trainVars>>
  \/ ResetWait /\ UNCHANGED <<bufVars, agentVars, sacVars, lossVars, trainVars>>

SpecEnv == InitEnvOnly /\ [][NextEnv]_vars

\* One run of train_sac.
InitTrainOnly == IdleBuffer /\ IdleAgent /\ IdleSAC /\ IdleLoss /\ IdleEnv /\ InitTrain

NextTrain ==
  \/ TrainStep /\ UNCHANGED <<bufVars, agentVars, sacVars, lossVars, envVars>>
  \/ TrainStepRaises /\ UNCHANGED <<bufVars, agentVars, sacVars, lossVars, envVars>>
  \/ TrainEnd /\ UNCHANGED <<bufVars, agentVars, sacVars, lossVars, envVars>>

SpecTrain == InitTrainOnly /\ [][NextTrain]_vars

\* The SACWithReset agent: transitions reach its buffer, it is switched between
\* training and evaluation, and update_if_dataset_is_ready is called.
InitSACOnly == InitSAC /\ IdleLoss /\ IdleEnv /\ IdleTrain

NextSAC ==
  \/ SACAppend /\ UNCHANGED <<lossVars, envVars, trainVars>>
  \/ SACUpdateCall /\ UNCHANGED <<lossVars, envVars, trainVars>>
  \/ SetTraining /\ UNCHANGED <<sacVars, lossVars, envVars, trainVars>>

SpecSAC == InitSACOnly /\ [][NextSAC]_vars

\* ------------------------------------------------------------- claims
\* C1: after any sequence of append operations the number of stored
\* transitions, len(buffer), never exceeds the buffer's capacity.
C1_LenWithinCapacity == Len(replay_buffer) <= capacity

\* A full buffer that has already received more appends than it can hold.
C1_Witness == Len(replay_buffer) = capacity /\ n_appended > capacity

StoredIds == {replay_buffer[i].id : i \in 1..Len(replay_buffer)}

\* C2: a sample(n) call that returns gives exactly n transitions, pairwise
\* distinct, each of them appended before and still stored, and it leaves
\* len(buffer) as it was.  (In SpecBuffer the steps that append nothing are
\* the sample calls.)
C2_SampleContract ==
  [][(n_appended' = n_appended /\ ~sample_raised') =>
       /\ Len(sampled') = sample_n'
       /\ \A i, j \in 1..Len(sampled') : i # j => sampled'[i] # sampled'[j]
       /\ \A i \in 1..Len(sampled') :
            /\ sampled'[i].id \in 1..n_appended
            /\ sampled'[i].id \in StoredIds'
       /\ Len(replay_buffer') = Len(replay_buffer)]_vars

\* A sample of two transitions drawn from a buffer that has evicted one.
C2_Witness ==
  /\ ~sample_raised
  /\ sample_n = 2
  /\ Len(sampled) = 2
  /\ n_appended > capacity

FullUpdateLog == <<"sample", "_update_critic", "_update_actor", "_sync_target_network">>

\* C3: each DDPG target network starts equal to its source network; a step
\* changes a target only by one _sync_target_network call, which sets
\* target := tau*source + (1-tau)*target from the sources as the critic and
\* actor optimizer steps of the same update left them; there is exactly one
\* sync per performed update, and no other step touches a target.
C3_TargetsOnlySoftUpdated ==
  /\ policy_target = policy /\ q_target = q
  /\ [][/\ n_sync' \in {n_sync, n_sync + 1}
        /\ (n_sync' = n_sync) =>
             /\ q_target' = q_target
             /\ policy_target' = policy_target
             /\ num_update' = num_update
        /\ (n_sync' = n_sync + 1) =>
             /\ num_update' = num_update + 1
             /\ n_q_step' = n_q_step + 1
             /\ n_policy_step' = n_policy_step + 1
             /\ trace' = FullUpdateLog
             /\ tau[2] * q_target' = tau[1] * q' + (tau[2] - tau[1]) * q_target
             /\ tau[2] * policy_target' =
                  tau[1] * policy' + (tau[2] - tau[1]) * policy_target]_vars

\* Two syncs later a target is a blend that equals neither its source nor any
\* value an optimizer step can produce.
C3_Witness ==
  /\ n_sync = 2
  /\ q_target # q
  /\ q_target \notin ParamVals
  /\ policy_target \notin ParamVals

\* C4: a call of update_if_dataset_is_ready (directly or at the end of
\* observe, in training mode) that returns has performed an update (critic
\* step, actor step, target sync) iff len(replay_buffer) > replay_start_size,
\* and leaves just_updated True iff it did; num_update goes up by one with
\* each performed update and by nothing else, so it always equals the number
\* of updates performed so far.
C4_UpdateIffReady ==
  /\ [](num_update = n_sync /\ n_sync = n_q_step /\ n_q_step = n_policy_step)
  /\ [][LET performed == /\ n_q_step' = n_q_step + 1
                         /\ n_policy_step' = n_policy_step + 1
                         /\ n_sync' = n_sync + 1
            nothing == /\ n_q_step' = n_q_step
                       /\ n_policy_step' = n_policy_step
                       /\ n_sync' = n_sync
            called == training /\ handler' \in {"observe", "update_if_dataset_is_ready"}
        IN /\ performed \/ nothing
           /\ num_update' = IF performed THEN num_update + 1 ELSE num_update
           /\ ~called => nothing
           /\ (called /\ outcome' = "returned") =>
                /\ performed <=> (Len(replay_buffer') > replay_start_size)
                /\ (just_updated' = "True") <=> performed
                /\ (just_updated' = "False") <=> ~performed]_vars

\* An update performed with exactly replay_start_size + 1 stored transitions,
\* after an earlier call found exactly replay_start_size and did nothing.
C4_Witness ==
  /\ just_updated = "True"
  /\ outcome = "returned"
  /\ num_update = 1
  /\ replay_start_size > 0
  /\ Len(replay_buffer) = replay_start_size + 1

C6_Original ==
  /\ l_fn = "SACWithReset.compute_q_loss" =>
       \A i \in 1..Len(l_out) :
         l_out[i].reward =
           IF l_batch[i].reward = NaN THEN Fin(-reset_cost) ELSE l_batch[i].reward
  /\ l_fn = "SACWithReset.compute_reset_losses" =>
       \A i \in 1..Len(l_out) :
         l_out[i].reward = IF l_batch[i].reward = NaN THEN 1 ELSE 0

\* C6, amended: in the Q target every NaN reward becomes minus the reset
\* cost, every finite reward is left unchanged, and an infinite reward
\* becomes the largest (+inf) or smallest (-inf) finite float32;
\* compute_reset_losses uses reward 1 for a NaN reward and 0 for every other.
C6_NanRewardIsResetMarker ==
  /\ l_fn = "SACWithReset.compute_q_loss" =>
       \A i \in 1..Len(l_out) :
         /\ l_batch[i].reward = NaN => l_out[i].reward = Fin(-reset_cost)
         /\ l_batch[i].reward.k = "fin" => l_out[i].reward = l_batch[i].reward
         /\ l_batch[i].reward = PosInf => l_out[i].reward = FloatMax
         /\ l_batch[i].reward = NegInf => l_out[i].reward = FloatMin
  /\ l_fn = "SACWithReset.compute_reset_losses" =>
       \A i \in 1..Len(l_out) :
         l_out[i].reward = IF l_batch[i].reward = NaN THEN 1 ELSE 0

\* A Q target computed for a batch holding a NaN reward and a finite one.
C6_Witness ==
  /\ l_fn = "SACWithReset.compute_q_loss"
  /\ Len(l_batch) = 2
  /\ l_batch[1].reward = NaN /\ l_batch[2].reward = Fin(1)
  /\ l_out[1].reward = Fin(-reset_cost) /\ l_out[2].reward = Fin(1)

\* C7: in train_sac the actor starts as the random actor, becomes the agent
\* actor in the iteration whose total_step equals t_init and in no other, and
\* never changes back; every step is observed, and sac_agent.update() is
\* called in exactly the iterations at or after the switch (an iteration cut
\* short by an exception before line 58 left aside).
C7_ActorSwitch ==
  /\ actor = "random_actor"
  /\ [](\A i \in 1..Len(step_log) :
          LET e == step_log[i] IN
            /\ e.raised # "step" => e.observed
            /\ e.raised \notin {"step", "observe"} =>
                 /\ e.after = "agent_actor" <=>
                      \E j \in 1..i : step_log[j].step = t_init
                 /\ e.updated <=> e.after = "agent_actor"
            /\ e.raised \in {"step", "observe"} => ~e.updated)
  /\ [][/\ actor = "agent_actor" => actor' = "agent_actor"
        /\ actor' # actor => total_step' = t_init /\ actor' = "agent_actor"]_vars

\* A run of three steps with t_init = 2: no update in the first step, one in
\* the second and one in the third.
C7_Witness ==
  /\ t_pc = "returned"
  /\ t_init = 2
  /\ Len(step_log) = 3
  /\ ~step_log[1].updated /\ step_log[2].updated /\ step_log[3].updated
  /\ step_log[2].acting = "random_actor" /\ step_log[3].acting = "agent_actor"

\* C8: a step_wait whose env step reports done stores that step's
\* observation in info["terminal_observation"], resets the wrapped env exactly
\* once and returns the reset observation with done still True; otherwise it
\* does not reset and returns the step's observation and info as they are.
\* Observation, reward, done (and info) come back as batches of length 1.
C8_AutoReset ==
  [][(v_handler' = "step_wait" /\ v_outcome' = "returned") =>
       LET r == env_step_ret' IN
         /\ Len(v_ret'.observation) = 1
         /\ Len(v_ret'.info) = 1
         /\ v_ret'.reward = <<r.reward>>
         /\ v_ret'.done = <<r.done>>
         /\ r.done =>
              /\ "terminal_observation" \in DOMAIN v_ret'.info[1]
              /\ v_ret'.info[1].terminal_observation = r.observation
              /\ v_ret'.info[1].truncated = r.info.truncated
              /\ env_resets' = env_resets + 1
              /\ v_ret'.observation = <<env_reset_ret'>>
         /\ ~r.done =>
              /\ env_resets' = env_resets
              /\ env_reset_ret' = env_reset_ret
              /\ v_ret'.observation = <<r.observation>>
              /\ v_ret'.info = <<r.info>>]_vars

\* A step_wait that returned done with a reset observation other than the
\* terminal observation it stored.
C8_Witness ==
  /\ v_handler = "step_wait"
  /\ v_outcome = "returned"
  /\ v_ret.done = <<TRUE>>
  /\ env_resets = 1
  /\ v_ret.info[1].terminal_observation = 1
  /\ v_ret.observation = <<0>>

\* C9: step_async records the action batch and does not touch the wrapped
\* env; the wrapped env is stepped by step_wait alone, exactly once per
\* step_wait call that returns, with the first element of the batch recorded
\* last, and step_wait leaves the recorded batch in place.
C9_Synchronous ==
  [][/\ v_handler' = "step_async" =>
          /\ _action'.set
          /\ UNCHANGED <<env_steps, env_resets, env_last_action, env_step_ret,
                         env_reset_ret>>
     /\ (v_handler' = "step_wait" /\ v_outcome' = "returned") =>
          /\ _action.set
          /\ env_steps' = env_steps + 1
          /\ env_last_action' = _action.val[1]
          /\ _action' = _action
     /\ env_steps' # env_steps => v_handler' = "step_wait"]_vars

\* A second env step made with the first action of a two-action batch whose
\* actions differ.
C9_Witness ==
  /\ v_handler = "step_wait"
  /\ v_outcome = "returned"
  /\ env_steps = 2
  /\ Len(_action.val) = 2
  /\ _action.val[1] # _action.val[2]
  /\ env_last_action = _action.val[1]

\* C10: an exception raised in the interaction loop is not caught: train_sac
\* is left by it, the loop is never resumed, and the only thing done on the
\* way out is the finally block, which saves the agent exactly once iff
\* save_agent is set, whether the loop ended normally or by an exception.
C10_NoRecovery ==
  /\ [](/\ t_pc = "loop" => n_saved = 0 /\ t_exc = "none"
        /\ t_pc # "loop" => n_saved = IF save_agent THEN 1 ELSE 0
        /\ t_pc = "raised" <=> t_exc # "none")
  /\ [][/\ t_pc # "loop" => UNCHANGED trainVars
        /\ t_exc' # "none" =>
             /\ t_pc' = "raised"
             /\ Len(step_log') = Len(step_log) + 1
             /\ step_log'[Len(step_log')].raised = t_exc']_vars

\* train_sac left by an exception raised in update(), the agent saved once.
C10_Witness ==
  /\ t_pc = "raised"
  /\ t_exc = "update"
  /\ save_agent
  /\ n_saved = 1
  /\ Len(step_log) = 2


\* The calls of one performed SACWithReset update, in order.
FullSACLog ==
  <<"sample", "_update_q", "_update_reset_cost", "reset_q_optimizer.step",
    "reset_rate_optimizer.step", "reset_cost_optimizer.step", "reset_rate.clip",
    "_update_policy_and_temperature", "_sync_target_network",
    "synchronize reset_rate_target", "synchronize reset_q_target",
    "super()._sync_target_network">>

\* C11: a call of SACWithReset.update_if_dataset_is_ready in training mode with
\* len(replay_buffer) <= replay_start_size changes nothing but just_updated,
\* which becomes False.  Otherwise, once its batch is sampled, it makes these
\* calls in this order: the Q update; the reset-cost update, which steps the
\* optimizers of reset_q, reset_rate and reset_cost and then clips reset_rate;
\* the policy-and-temperature update; and last the target sync, which soft
\* updates reset_rate_target and reset_q_target with tau from the parameters
\* as the update left them, and then syncs the targets of SAC.
C11_UpdateOrder ==
  [][(handler' = "update_if_dataset_is_ready" /\ training) =>
       IF Len(replay_buffer) <= replay_start_size
       THEN /\ just_updated' = "False"
            /\ trace' = <<>>
            /\ outcome' = "returned"
            /\ UNCHANGED <<bufVars, sacVars, batch_size, replay_start_size, tau,
                           training, policy, policy_target, q, q_target, num_update,
                           act_kind, n_q_step, n_policy_step, n_sync>>
       ELSE /\ just_updated' = "True"
            /\ Head(trace') = "sample"
            /\ outcome' = "returned" =>
                 /\ trace' = FullSACLog
                 /\ reset_rate' = Clip(reset_rate_raw')
                 /\ reset_rate_target' = FSoftUpdate(reset_rate', reset_rate_target, tau)
                 /\ reset_q_target' = SoftUpdate(reset_q', reset_q_target, tau)
                 /\ q1_target' = SoftUpdate(q1', q1_target, tau)
                 /\ q2_target' = SoftUpdate(q2', q2_target, tau)
                 /\ n_sync' = n_sync + 1]_vars

\* A second update has run: the targets of reset_rate and reset_q lie strictly
\* between their start and their sources.
C11_Witness ==
  /\ handler = "update_if_dataset_is_ready"
  /\ trace = FullSACLog
  /\ n_sync = 2
  /\ reset_rate.k = "fin"
  /\ reset_rate_target.k = "fin"
  /\ reset_rate_target.v > 0
  /\ reset_rate_target.v < reset_rate.v
  /\ reset_q_target > 0
  /\ reset_q_target < reset_q
  /\ q1_target > 0

\* C12: whenever the agent calls replay_buffer.sample(batch_size), whatever
\* batch_size, replay_start_size and capacity are, the buffer holds at least
\* batch_size transitions.  (Nothing is appended between the call of sample
\* and the end of the handler, so the buffer is the one sample saw.)
C12_SampleCanBeMet ==
  (trace # <<>> /\ Head(trace) = "sample") => Len(replay_buffer) >= batch_size

\* observe has appended one transition to an empty buffer and called
\* sample(batch_size) with fewer than batch_size transitions stored.
C12_Witness ==
  /\ handler = "observe"
  /\ trace = <<"sample">>
  /\ outcome = "raised"
  /\ Len(replay_buffer) = 1
  /\ batch_size = 2
  /\ replay_start_size = 0

\* C13: in training mode DDPG.act returns uniformly random actions, drawn
\* without the policy, iff len(replay_buffer) < replay_start_size, and actions
\* sampled from the policy and passed through the explorer otherwise; in
\* evaluation mode it returns the deterministic policy output whatever the
\* buffer holds.  No update has been performed while len(replay_buffer) <=
\* replay_start_size, so at len(replay_buffer) = replay_start_size the policy
\* that acts is one that was never updated.
C13_ActBranches ==
  /\ [](Len(replay_buffer) <= replay_start_size => num_update = 0)
  /\ [][handler' = "act" =>
          /\ training =>
               /\ act_kind' = "random" <=> Len(replay_buffer) < replay_start_size
               /\ act_kind' = "policy_explorer" <=>
                    Len(replay_buffer) >= replay_start_size
          /\ ~training => act_kind' = "deterministic"
          /\ UNCHANGED <<replay_buffer, policy, q, num_update, training>>]_vars

\* act in training mode with exactly replay_start_size transitions stored.
C13_Witness ==
  /\ handler = "act"
  /\ training
  /\ replay_start_size > 0
  /\ Len(replay_buffer) = replay_start_size
  /\ act_kind = "policy_explorer"
  /\ num_update = 0

\* What a bounded queue of capacity cap holds after the transitions numbered
\* first .. first + k - 1 have reached it one by one, in this order.
AfterAppends(buf, first, k, cap) ==
  LET all == buf \o [i \in 1..k |-> Transition(first + i - 1)]
      m == Min(cap, Len(all))
  IN SubSeq(all, Len(all) - m + 1, Len(all))

\* C14: in training mode DDPG.observe appends one transition per zipped input
\* element, in input order, and then calls update_if_dataset_is_ready once, on
\* the buffer that holds all of them: at most one update per call.  When the
\* agent is not in training mode observe leaves the replay buffer, num_update,
\* just_updated and the networks as they are.
C14_ObserveEffect ==
  [][handler' = "observe" =>
       IF training
       THEN /\ n_appended' >= n_appended
            /\ replay_buffer' = AfterAppends(replay_buffer, n_appended + 1,
                                             n_appended' - n_appended, capacity)
            /\ just_updated' =
                 (IF Len(replay_buffer') > replay_start_size THEN "True" ELSE "False")
            /\ num_update' \in {num_update, num_update + 1}
            /\ n_sync' \in {n_sync, n_sync + 1}
            /\ n_q_step' \in {n_q_step, n_q_step + 1}
            /\ n_policy_step' \in {n_policy_step, n_policy_step + 1}
            /\ num_update' = num_update + 1 <=>
                 (Len(replay_buffer') > replay_start_size /\ outcome' = "returned")
       ELSE UNCHANGED <<replay_buffer, n_appended, num_update, just_updated, policy,
                        policy_target, q, q_target, n_q_step, n_policy_step,
                        n_sync>>]_vars

\* One observe call has appended two transitions and performed one update.
C14_Witness ==
  /\ handler = "observe"
  /\ training
  /\ batch_size = 1
  /\ replay_start_size = 0
  /\ replay_buffer = <<Transition(1), Transition(2)>>
  /\ n_appended = 2
  /\ num_update = 1
  /\ trace = FullUpdateLog

\* C15 as stated: the reset rate lies in [0, 1] in every state, whatever the
\* optimizer step produced.
C15_Original ==
  /\ reset_rate.k = "fin"
  /\ reset_rate.v >= 0
  /\ reset_rate.v <= One

\* C15: the reset rate starts at 0.  After every _update_reset_cost, hence
\* after every performed update, it is clip of what the optimizer step
\* produced: 0 for a value below 0, 1 for a value above 1, the value itself
\* for a value in [0, 1], and NaN for NaN.  So it lies in [0, 1] whenever the
\* optimizer step produced a number, and clip is idempotent.
C15_ResetRateClipped ==
  /\ reset_rate = Fin(0)
  /\ [](/\ reset_rate_raw.k = "fin" /\ reset_rate_raw.v < 0 => reset_rate = Fin(0)
        /\ reset_rate_raw.k = "fin" /\ reset_rate_raw.v > One => reset_rate = Fin(One)
        /\ (reset_rate_raw.k = "fin" /\ reset_rate_raw.v >= 0
              /\ reset_rate_raw.v <= One) => reset_rate = reset_rate_raw
        /\ reset_rate_raw.k = "nan" <=> reset_rate.k = "nan"
        /\ reset_rate.k # "nan" => C15_Original
        /\ Clip(reset_rate) = reset_rate)

\* An update whose optimizer step left the reset rate above 1, clipped to 1.
C15_Witness ==
  /\ handler = "update_if_dataset_is_ready"
  /\ trace = FullSACLog
  /\ reset_rate_raw = Fin(2 * One)
  /\ reset_rate = Fin(One)
====
